---- MODULE Spec2Model ----
(***************************************************************************)
(* Model of two parts of dagster:                                          *)
(*   - core/storage/schedules/sql_schedule_storage.py (SqlScheduleStorage) *)
(*   - core/snap/dep_snapshot.py (DependencyStructureSnapshot and its      *)
(*     index), core/snap/solid.py and core/snap/pipeline_snapshot.py (the  *)
(*     other snapshot records)                                             *)
(* Python values are modelled as records carrying a "cls" field, lists as  *)
(* sequences, a call's outcome as a record that either returns a value or  *)
(* raises an exception.                                                    *)
(***************************************************************************)
EXTENDS Integers, Sequences, FiniteSets, TLC

VARIABLES
    schedules,   \* rows of ScheduleTable, in insertion order
    ticks,       \* rows of ScheduleTickTable, in insertion order
    last,        \* the most recent call of the sequential client and its outcome
    pc,          \* concurrent writers: each writer's position and pending call
    added,       \* history: per key, the writers whose add succeeded since the key was last removed
    graph,       \* the live graph (IContainSolids) handed to the builder, or None
    snapshot,    \* the DependencyStructureSnapshot in hand, or None
    index,       \* the DependencyStructureSnapshotIndex built over it, or None
    answer,      \* the most recent index query and its outcome
    record,      \* the snapshot record handed to the codec, or None
    wire,        \* the outcome of serializing it
    decoded      \* the outcome of deserializing what was serialized

vars == <<schedules, ticks, last, pc, added, graph, snapshot, index, answer,
          record, wire, decoded>>

storeVars == <<schedules, ticks, last, pc, added>>
snapVars == <<graph, snapshot, index, answer>>
serdesVars == <<record, wire, decoded>>

----------------------------------------------------------------------------
(* Bounds and input sets *)

MaxTicks == 2
MaxSize == 5

\* The most upstream outputs wired to the input ports of one solid of a live graph.
MaxWired == 2

Repos == {"r1", "r2"}
ScheduleNames == {"daily", "hourly"}
ScheduleStatus == {"RUNNING", "STOPPED"}
ScheduleTickStatus == {"STARTED", "SKIPPED", "SUCCESS", "FAILURE"}
TickInputStatus == {"STARTED", "SUCCESS"}
Timestamps == {1000}
Writers == {"w1", "w2"}
SolidNames == {"a", "b"}
InputNames == {"x", "y"}
OutputNames == {"result", "extra"}

----------------------------------------------------------------------------
(* Python values *)

None == [cls |-> "NoneType"]

\* A Python list.
List(items) == [cls |-> "list", items |-> items]

NoArgs == [none |-> TRUE]

RepositoryDefinition(name) == [cls |-> "RepositoryDefinition", name |-> name]

Schedule(name, status) == [cls |-> "Schedule", name |-> name, status |-> status]

ScheduleTickData(schedule_name, status, timestamp) ==
    [cls |-> "ScheduleTickData", schedule_name |-> schedule_name,
     status |-> status, timestamp |-> timestamp]

ScheduleTick(tick_id, schedule_tick_data) ==
    [cls |-> "ScheduleTick", tick_id |-> tick_id,
     schedule_tick_data |-> schedule_tick_data]

Repositories == {RepositoryDefinition(n) : n \in Repos}
AllSchedules == {Schedule(n, s) : n \in ScheduleNames, s \in ScheduleStatus}
AllTickData ==
    {ScheduleTickData(n, s, t) : n \in ScheduleNames, s \in ScheduleTickStatus, t \in Timestamps}

Return(value) == [kind |-> "return", value |-> value]
Raise(error, msg) == [kind |-> "raise", error |-> error, msg |-> msg]

----------------------------------------------------------------------------
(* Collaborators of the storage class that live outside the sampled files *)

serialize_dagster_namedtuple(nt) == <<"json", nt.cls, nt>>

deserialize_json_to_dagster_namedtuple(json) == json[3]

utc_datetime_from_timestamp(ts) == <<"utc", ts>>

\* Unique constraint of ScheduleTable on (repository_name, schedule_name).
ScheduleTable_violates(table, row) ==
    \E i \in 1..Len(table) :
        /\ table[i].repository_name = row.repository_name
        /\ table[i].schedule_name = row.schedule_name

\* ScheduleTable.insert(): the new table, or IntegrityError.
ScheduleTable_insert(table, row) ==
    IF ScheduleTable_violates(table, row)
    THEN [error |-> "IntegrityError", table |-> table]
    ELSE [error |-> "", table |-> Append(table, row)]

\* Auto-assigned integer primary key of ScheduleTickTable.
ScheduleTickTable_next_id(table) ==
    IF Len(table) = 0 THEN 1
    ELSE 1 + (CHOOSE m \in {table[i].id : i \in 1..Len(table)} :
                \A j \in 1..Len(table) : table[j].id <= m)

\* ScheduleTickTable.insert(): primary key collisions raise IntegrityError.
ScheduleTickTable_insert(table, values) ==
    LET id == ScheduleTickTable_next_id(table)
    IN IF \E i \in 1..Len(table) : table[i].id = id
       THEN [error |-> "IntegrityError", table |-> table, inserted_primary_key |-> <<id>>]
       ELSE [error |-> "", inserted_primary_key |-> <<id>>,
             table |-> Append(table, [id |-> id] @@ values)]

----------------------------------------------------------------------------
(* SqlScheduleStorage: each method as a function of the tables *)

_deserialize_rows(rows) ==
    [i \in 1..Len(rows) |-> deserialize_json_to_dagster_namedtuple(rows[i][1])]

\* The orders in which the database may return the n rows a SELECT without
\* ORDER BY matches.
RowOrders(n) == {order \in [1..n -> 1..n] : \A i, j \in 1..n : order[i] = order[j] => i = j}

\* The rows of the schedule table a query on repository matches.
schedule_rows(table, repository) ==
    SelectSeq(table, LAMBDA r : r.repository_name = repository.name)

\* The rows of the tick table a query on repository and schedule_name matches.
tick_rows(table, repository, schedule_name) ==
    SelectSeq(table, LAMBDA r :
        /\ r.repository_name = repository.name
        /\ r.schedule_name = schedule_name)

\* order: the order in which the database returns the matching rows.
all_schedules(table, repository, order) ==
    IF repository # None
    THEN LET matching == schedule_rows(table, repository)
             rows == [i \in 1..Len(matching) |-> <<matching[order[i]].schedule_body>>]
         IN Return(List(_deserialize_rows(rows)))
    ELSE Raise("UnboundLocalError", "query")

get_schedule_by_name(table, repository, schedule_name) ==
    LET matching == SelectSeq(table, LAMBDA r :
                        /\ r.repository_name = repository.name
                        /\ r.schedule_name = schedule_name)
        rows == [i \in 1..Len(matching) |-> <<matching[i].schedule_body>>]
    IN IF Len(rows) # 0
       THEN Return(deserialize_json_to_dagster_namedtuple(rows[1][1]))
       ELSE Return(None)

\* order: the order in which the database returns the matching rows.
get_schedule_ticks_by_schedule(table, repository, schedule_name, order) ==
    LET matching == tick_rows(table, repository, schedule_name)
        rows == [i \in 1..Len(matching) |->
                    <<matching[order[i]].id, matching[order[i]].tick_body>>]
    IN Return(List([i \in 1..Len(rows) |->
                 ScheduleTick(rows[i][1], deserialize_json_to_dagster_namedtuple(rows[i][2]))]))

create_schedule_tick(table, repository, schedule_tick_data) ==
    LET ins == ScheduleTickTable_insert(table,
                   [repository_name |-> repository.name,
                    schedule_name |-> schedule_tick_data.schedule_name,
                    status |-> schedule_tick_data.status,
                    timestamp |-> utc_datetime_from_timestamp(schedule_tick_data.timestamp),
                    tick_body |-> serialize_dagster_namedtuple(schedule_tick_data)])
    IN IF ins.error = "IntegrityError"
       THEN [ticks |-> ins.table,
             ret |-> Raise("DagsterInvariantViolationError", "Unable to insert ScheduleTick")]
       ELSE [ticks |-> ins.table,
             ret |-> Return(ScheduleTick(ins.inserted_primary_key[1], schedule_tick_data))]

\* A faulty update_schedule_tick: it records the new status as a further row.
update_schedule_tick_append(table, repository, tick) ==
    [ticks |-> Append(table,
                   [id |-> ScheduleTickTable_next_id(table),
                    repository_name |-> repository.name,
                    schedule_name |-> tick.schedule_tick_data.schedule_name,
                    status |-> tick.schedule_tick_data.status,
                    timestamp |-> utc_datetime_from_timestamp(tick.schedule_tick_data.timestamp),
                    tick_body |-> serialize_dagster_namedtuple(tick.schedule_tick_data)]),
     ret |-> Return(tick)]

update_schedule_tick(table, repository, tick) ==
    [ticks |-> [i \in 1..Len(table) |->
                   IF table[i].id = tick.tick_id
                   THEN [table[i] EXCEPT
                            !.status = tick.schedule_tick_data.status,
                            !.tick_body = serialize_dagster_namedtuple(tick.schedule_tick_data)]
                   ELSE table[i]],
     ret |-> Return(tick)]

\* A faulty add_schedule: the IntegrityError is caught and dropped.
add_schedule_swallow(table, repository, schedule) ==
    LET ins == ScheduleTable_insert(table,
                   [repository_name |-> repository.name,
                    schedule_name |-> schedule.name,
                    status |-> schedule.status,
                    schedule_body |-> serialize_dagster_namedtuple(schedule)])
    IN [schedules |-> ins.table, ret |-> Return(schedule)]

\* A faulty add_schedule: on a conflict it overwrites the stored row.
add_schedule_overwrite(table, repository, schedule) ==
    LET row == [repository_name |-> repository.name,
                schedule_name |-> schedule.name,
                status |-> schedule.status,
                schedule_body |-> serialize_dagster_namedtuple(schedule)]
    IN IF ScheduleTable_violates(table, row)
       THEN [schedules |-> [i \in 1..Len(table) |->
                               IF /\ table[i].repository_name = row.repository_name
                                  /\ table[i].schedule_name = row.schedule_name
                               THEN row ELSE table[i]],
             ret |-> Return(schedule)]
       ELSE [schedules |-> Append(table, row), ret |-> Return(schedule)]

add_schedule(table, repository, schedule) ==
    LET ins == ScheduleTable_insert(table,
                   [repository_name |-> repository.name,
                    schedule_name |-> schedule.name,
                    status |-> schedule.status,
                    schedule_body |-> serialize_dagster_namedtuple(schedule)])
    IN IF ins.error = "IntegrityError"
       THEN [schedules |-> ins.table,
             ret |-> Raise("DagsterInvariantViolationError", "is already present in storage")]
       ELSE [schedules |-> ins.table, ret |-> Return(schedule)]

\* A faulty pre-check: the missing row goes unnoticed.
schedule_not_present_unnoticed(table, repository, schedule) == FALSE

\* The existence pre-check shared by update_schedule and delete_schedule.
schedule_not_present(table, repository, schedule) ==
    get_schedule_by_name(table, repository, schedule.name).value = None

\* The number of rows the where clause of update_schedule and delete_schedule
\* matches; the code discards it.
rowcount(table, repository, schedule) ==
    Cardinality({i \in 1..Len(table) :
                    /\ table[i].repository_name = repository.name
                    /\ table[i].schedule_name = schedule.name})

\* A faulty write of update_schedule: when no row matches, the row is inserted.
update_schedule_write_upsert(table, repository, schedule) ==
    IF rowcount(table, repository, schedule) = 0
    THEN Append(table, [repository_name |-> repository.name,
                        schedule_name |-> schedule.name,
                        status |-> schedule.status,
                        schedule_body |-> serialize_dagster_namedtuple(schedule)])
    ELSE [i \in 1..Len(table) |->
            IF /\ table[i].repository_name = repository.name
               /\ table[i].schedule_name = schedule.name
            THEN [table[i] EXCEPT
                     !.status = schedule.status,
                     !.schedule_body = serialize_dagster_namedtuple(schedule)]
            ELSE table[i]]

\* ScheduleTable.update().where(...).values(...)
update_schedule_write(table, repository, schedule) ==
    [i \in 1..Len(table) |->
        IF /\ table[i].repository_name = repository.name
           /\ table[i].schedule_name = schedule.name
        THEN [table[i] EXCEPT
                 !.status = schedule.status,
                 !.schedule_body = serialize_dagster_namedtuple(schedule)]
        ELSE table[i]]

\* ScheduleTable.delete().where(...)
delete_schedule_write(table, repository, schedule) ==
    SelectSeq(table, LAMBDA r :
        ~(/\ r.repository_name = repository.name
          /\ r.schedule_name = schedule.name))

\* A faulty wipe: it clears the tick table as well.
wipe_everything(scheduleTable, tickTable) ==
    [schedules |-> <<>>, ticks |-> <<>>, ret |-> Return(None)]

\* wipe(): ScheduleTable.delete() with no where clause; the tick table is not named.
wipe(scheduleTable, tickTable) ==
    [schedules |-> <<>>, ticks |-> tickTable, ret |-> Return(None)]

----------------------------------------------------------------------------
(* Sequential client: one action per public method that executes one statement. *)
(* The schedule client calls the schedule methods on every input and records   *)
(* ticks of one schedule, so that tick rows exist while schedules change.      *)

Keys == Repos \X ScheduleNames

NoWriters == [w \in Writers |-> [at |-> "start"]]
NoneAdded == [k \in Keys |-> {}]

\* No call of the codec has been made.
NoOutcome == [kind |-> "none"]

InitSerdesIdle ==
    /\ record = None
    /\ wire = NoOutcome
    /\ decoded = NoOutcome

InitStoreVars ==
    /\ schedules = <<>>
    /\ ticks = <<>>
    /\ last = [op |-> "init", args |-> NoArgs, ret |-> Return(None)]
    /\ pc = NoWriters
    /\ added = NoneAdded

AllSchedulesCall(repository) ==
    /\ \E order \in RowOrders(IF repository = None THEN 0
                              ELSE Len(schedule_rows(schedules, repository))) :
          last' = [op |-> "all_schedules", args |-> [repository |-> repository],
                   ret |-> all_schedules(schedules, repository, order)]
    /\ UNCHANGED <<schedules, ticks>>

GetScheduleByName(repository, schedule_name) ==
    /\ last' = [op |-> "get_schedule_by_name", args |-> [repository |-> repository, schedule_name |-> schedule_name],
                ret |-> get_schedule_by_name(schedules, repository, schedule_name)]
    /\ UNCHANGED <<schedules, ticks>>

GetScheduleTicksBySchedule(repository, schedule_name) ==
    /\ \E order \in RowOrders(Len(tick_rows(ticks, repository, schedule_name))) :
          last' = [op |-> "get_schedule_ticks_by_schedule",
                   args |-> [repository |-> repository, schedule_name |-> schedule_name],
                   ret |-> get_schedule_ticks_by_schedule(ticks, repository,
                                                          schedule_name, order)]
    /\ UNCHANGED <<schedules, ticks>>

CreateScheduleTick(repository, schedule_tick_data) ==
    /\ Len(ticks) < MaxTicks
    /\ LET r == create_schedule_tick(ticks, repository, schedule_tick_data)
       IN /\ ticks' = r.ticks
          /\ last' = [op |-> "create_schedule_tick",
                      args |-> [repository |-> repository,
                                schedule_tick_data |-> schedule_tick_data], ret |-> r.ret]
    /\ UNCHANGED schedules

UpdateScheduleTick(repository, tick) ==
    /\ LET r == update_schedule_tick(ticks, repository, tick)
       IN /\ ticks' = r.ticks
          /\ last' = [op |-> "update_schedule_tick", args |-> [repository |-> repository, tick |-> tick],
                      ret |-> r.ret]
    /\ UNCHANGED schedules

AddSchedule(repository, schedule) ==
    /\ LET r == add_schedule(schedules, repository, schedule)
       IN /\ schedules' = r.schedules
          /\ last' = [op |-> "add_schedule", args |-> [repository |-> repository, schedule |-> schedule],
                      ret |-> r.ret]
    /\ UNCHANGED ticks

Wipe ==
    /\ LET r == wipe(schedules, ticks)
       IN /\ schedules' = r.schedules
          /\ ticks' = r.ticks
          /\ last' = [op |-> "wipe", args |-> NoArgs, ret |-> r.ret]

NextStore ==
    /\ \/ \E repository \in Repositories \cup {None} : AllSchedulesCall(repository)
       \/ \E repository \in Repositories, n \in ScheduleNames :
              GetScheduleByName(repository, n)
       \/ \E repository \in Repositories, s \in AllSchedules : AddSchedule(repository, s)
       \/ Wipe
       \/ \E t \in Timestamps :
              CreateScheduleTick(RepositoryDefinition("r1"),
                                 ScheduleTickData("daily", "STARTED", t))
    /\ UNCHANGED <<pc, added, snapVars, serdesVars>>

----------------------------------------------------------------------------
(* Tick client: the tick methods next to add_schedule and wipe *)

\* Tick data the client passes in.
TickInputData ==
    {ScheduleTickData(n, s, t) : n \in ScheduleNames, s \in TickInputStatus, t \in Timestamps}

\* The calls of update_schedule_tick the client makes: a tick the storage handed
\* out, given a new status and passed with the repository it was created for, and
\* a tick whose id the storage never assigned.
TickUpdateInputs(table) ==
    {<<RepositoryDefinition(table[i].repository_name),
       ScheduleTick(table[i].id,
                    [deserialize_json_to_dagster_namedtuple(table[i].tick_body)
                        EXCEPT !.status = s])>> : i \in 1..Len(table), s \in TickInputStatus}
    \cup {<<RepositoryDefinition(r),
            ScheduleTick(ScheduleTickTable_next_id(table),
                         ScheduleTickData(n, "SUCCESS", t))>> :
              r \in Repos, n \in ScheduleNames, t \in Timestamps}

NextTicks ==
    /\ \/ \E repository \in Repositories, n \in ScheduleNames :
              GetScheduleTicksBySchedule(repository, n)
       \/ \E repository \in Repositories, d \in TickInputData :
              CreateScheduleTick(repository, d)
       \/ \E call \in TickUpdateInputs(ticks) : UpdateScheduleTick(call[1], call[2])
       \/ \E repository \in Repositories, n \in ScheduleNames :
              /\ schedules = <<>>
              /\ AddSchedule(repository, Schedule(n, "RUNNING"))
       \/ Wipe
    /\ UNCHANGED <<pc, added, snapVars, serdesVars>>

----------------------------------------------------------------------------
(* Concurrent writers: every statement the storage executes is one step, so the *)
(* pre-check of update_schedule and delete_schedule and the write that follows  *)
(* it are two steps of the calling writer.                                      *)

ConcSchedules == {Schedule("daily", st) : st \in ScheduleStatus}

Ready(w) == pc[w].at \in {"start", "done"}

Done(op, repository, schedule, ret) ==
    [at |-> "done", op |-> op, repository |-> repository, schedule |-> schedule,
     ret |-> ret]

W_AddSchedule(w, repository, schedule) ==
    /\ Ready(w)
    /\ LET r == add_schedule(schedules, repository, schedule)
       IN /\ schedules' = r.schedules
          /\ pc' = [pc EXCEPT ![w] = Done("add_schedule", repository, schedule, r.ret)]
          /\ added' = IF r.ret.kind = "return"
                      THEN [added EXCEPT ![<<repository.name, schedule.name>>] = @ \cup {w}]
                      ELSE added
    /\ UNCHANGED ticks

W_UpdateCheck(w, repository, schedule) ==
    /\ Ready(w)
    /\ pc' = [pc EXCEPT ![w] =
                 IF schedule_not_present(schedules, repository, schedule)
                 THEN Done("update_schedule", repository, schedule,
                           Raise("DagsterInvariantViolationError", "is not present in storage"))
                 ELSE [at |-> "update_write", repository |-> repository,
                       schedule |-> schedule]]
    /\ UNCHANGED <<schedules, ticks, added>>

W_UpdateWrite(w) ==
    /\ pc[w].at = "update_write"
    /\ schedules' = update_schedule_write(schedules, pc[w].repository, pc[w].schedule)
    /\ pc' = [pc EXCEPT ![w] =
                 [at |-> "done", op |-> "update_schedule",
                  repository |-> pc[w].repository, schedule |-> pc[w].schedule,
                  ret |-> Return(None),
                  rowcount |-> rowcount(schedules, pc[w].repository, pc[w].schedule)]]
    /\ UNCHANGED <<ticks, added>>

W_DeleteCheck(w, repository, schedule) ==
    /\ Ready(w)
    /\ pc' = [pc EXCEPT ![w] =
                 IF schedule_not_present(schedules, repository, schedule)
                 THEN Done("delete_schedule", repository, schedule,
                           Raise("DagsterInvariantViolationError", "is not present in storage"))
                 ELSE [at |-> "delete_write", repository |-> repository,
                       schedule |-> schedule]]
    /\ UNCHANGED <<schedules, ticks, added>>

W_DeleteWrite(w) ==
    /\ pc[w].at = "delete_write"
    /\ schedules' = delete_schedule_write(schedules, pc[w].repository, pc[w].schedule)
    /\ pc' = [pc EXCEPT ![w] =
                 Done("delete_schedule", pc[w].repository, pc[w].schedule, Return(None))]
    /\ added' = [added EXCEPT ![<<pc[w].repository.name, pc[w].schedule.name>>] = {}]
    /\ UNCHANGED ticks

W_Wipe(w) ==
    /\ Ready(w)
    /\ schedules' = wipe(schedules, ticks).schedules
    /\ ticks' = wipe(schedules, ticks).ticks
    /\ pc' = [pc EXCEPT ![w] = Done("wipe", None, None, Return(None))]
    /\ added' = NoneAdded

\* One tick is recorded, so that the tick table is not empty while the writers
\* race.
W_CreateScheduleTick(w, repository, schedule_tick_data) ==
    /\ Ready(w)
    /\ ticks = <<>>
    /\ LET r == create_schedule_tick(ticks, repository, schedule_tick_data)
       IN /\ ticks' = r.ticks
          /\ pc' = [pc EXCEPT ![w] = Done("create_schedule_tick", repository, None, r.ret)]
    /\ UNCHANGED <<schedules, added>>

NextConc ==
    /\ \E w \in Writers :
          \/ \E repository \in Repositories, s \in ConcSchedules :
                 W_AddSchedule(w, repository, s)
          \/ \E repository \in Repositories, s \in ConcSchedules :
                 W_UpdateCheck(w, repository, s)
          \/ W_UpdateWrite(w)
          \/ \E repository \in Repositories, s \in ConcSchedules :
                 W_DeleteCheck(w, repository, s)
          \/ W_DeleteWrite(w)
          \/ W_Wipe(w)
          \/ \E t \in Timestamps :
                 W_CreateScheduleTick(w, RepositoryDefinition("r1"),
                                      ScheduleTickData("daily", "STARTED", t))
    /\ UNCHANGED <<last, snapVars, serdesVars>>

----------------------------------------------------------------------------
(* dep_snapshot.py: the snapshot records *)

OutputHandleSnap(solid_name, output_name) ==
    [cls |-> "OutputHandleSnap", solid_name |-> solid_name, output_name |-> output_name]

InputDependencySnap(input_name, prev_output_snaps) ==
    [cls |-> "InputDependencySnap", input_name |-> input_name,
     prev_output_snaps |-> prev_output_snaps]

SolidInvocationSnap(solid_name, solid_def_name, tags, input_dep_snaps) ==
    [cls |-> "SolidInvocationSnap", solid_name |-> solid_name,
     solid_def_name |-> solid_def_name, tags |-> tags,
     input_dep_snaps |-> input_dep_snaps]

\* The constructor checks the type of the list and of its items, nothing else.
DependencyStructureSnapshot(solid_invocation_snaps) ==
    [cls |-> "DependencyStructureSnapshot",
     solid_invocation_snaps |-> solid_invocation_snaps]

(* A Python dict: its items in insertion order; assigning an existing key *)
(* replaces the value in place.                                           *)
dict_has(d, key) == \E i \in 1..Len(d) : d[i].key = key

dict_get(d, key) == d[CHOOSE i \in 1..Len(d) : d[i].key = key].value

\* A faulty dict comprehension: an existing key keeps its first value.
dict_set_default(d, key, value) ==
    IF dict_has(d, key) THEN d ELSE Append(d, [key |-> key, value |-> value])

dict_set(d, key, value) ==
    IF dict_has(d, key)
    THEN [i \in 1..Len(d) |-> IF d[i].key = key THEN [key |-> key, value |-> value] ELSE d[i]]
    ELSE Append(d, [key |-> key, value |-> value])

\* {si.solid_name: si for si in solid_invocation_snaps}
RECURSIVE invocations_dict(_)
invocations_dict(solid_invocation_snaps) ==
    IF solid_invocation_snaps = <<>> THEN <<>>
    ELSE LET n == Len(solid_invocation_snaps)
             si == solid_invocation_snaps[n]
         IN dict_set(invocations_dict(SubSeq(solid_invocation_snaps, 1, n - 1)),
                     si.solid_name, si)

DependencyStructureSnapshotIndex(dep_structure_snapshot) ==
    [cls |-> "DependencyStructureSnapshotIndex",
     invocations_dict |-> invocations_dict(dep_structure_snapshot.solid_invocation_snaps)]

get_invocation(self, solid_name) ==
    IF dict_has(self.invocations_dict, solid_name)
    THEN Return(dict_get(self.invocations_dict, solid_name))
    ELSE Raise("KeyError", solid_name)

\* The for loop of get_upstream_outputs from position k on: the first match returns.
RECURSIVE scan_input_deps(_, _, _)
scan_input_deps(input_dep_snaps, input_name, k) ==
    IF k > Len(input_dep_snaps)
    THEN Raise("CheckError", "Input not found for solid")
    ELSE IF input_dep_snaps[k].input_name = input_name
         THEN Return(List(input_dep_snaps[k].prev_output_snaps))
         ELSE scan_input_deps(input_dep_snaps, input_name, k + 1)

\* A faulty get_upstream_outputs: an input that is not found yields an empty list.
get_upstream_outputs_no_failure(self, solid_name, input_name) ==
    LET invocation == get_invocation(self, solid_name)
    IN IF invocation.kind = "raise" THEN invocation
       ELSE LET found == scan_input_deps(invocation.value.input_dep_snaps, input_name, 1)
            IN IF found.kind = "raise" THEN Return(List(<<>>)) ELSE found

get_upstream_outputs(self, solid_name, input_name) ==
    LET invocation == get_invocation(self, solid_name)
    IN IF invocation.kind = "raise" THEN invocation
       ELSE scan_input_deps(invocation.value.input_dep_snaps, input_name, 1)

\* A faulty get_upstream_output: the invariant is len(outputs) >= 1.
get_upstream_output_first(self, solid_name, input_name) ==
    LET outputs == get_upstream_outputs(self, solid_name, input_name)
    IN IF outputs.kind = "raise" THEN outputs
       ELSE IF Len(outputs.value.items) >= 1
            THEN Return(outputs.value.items[1])
            ELSE Raise("CheckError", "Invariant failed.")

get_upstream_output(self, solid_name, input_name) ==
    LET outputs == get_upstream_outputs(self, solid_name, input_name)
    IN IF outputs.kind = "raise" THEN outputs
       ELSE IF Len(outputs.value.items) = 1
            THEN Return(outputs.value.items[1])
            ELSE Raise("CheckError", "Invariant failed.")

(* The live graph: its solids in iteration order and, per solid name, the     *)
(* input -> upstream outputs mapping of its dependency structure, in the      *)
(* mapping's iteration order.                                                 *)
Solid(name, definition_name, upstream) ==
    [cls |-> "Solid", name |-> name, definition |-> [name |-> definition_name],
     tags |-> [cls |-> "dict"], upstream |-> upstream]

IContainSolids(solids) == [cls |-> "IContainSolids", solids |-> solids]

_upstream_outputs(icontains_solids, solid) ==
    LET solids == icontains_solids.solids
    IN solids[CHOOSE k \in 1..Len(solids) : solids[k].name = solid.name].upstream

build_dep_structure_snapshot_from_icontains_solids(icontains_solids) ==
    LET solids == icontains_solids.solids
    IN DependencyStructureSnapshot(
         [k \in 1..Len(solids) |->
            LET solid == solids[k]
                items == _upstream_outputs(icontains_solids, solid)
            IN SolidInvocationSnap(
                 solid.name, solid.definition.name, solid.tags,
                 [j \in 1..Len(items) |->
                    InputDependencySnap(
                      items[j].input_name,
                      [m \in 1..Len(items[j].output_handles) |->
                         OutputHandleSnap(items[j].output_handles[m].solid_name,
                                          items[j].output_handles[m].output_name)])])])

----------------------------------------------------------------------------
(* Inputs of the snapshot operations: every wiring of at most MaxSize items *)
(* (solids, inputs and upstream outputs together)                           *)

Handles == {[solid_name |-> n, output_name |-> o] : n \in SolidNames, o \in OutputNames}

HandleSeqs(k) == IF k = 0 THEN {<<>>} ELSE [1..k -> Handles]

\* One input with its upstream outputs, n items in all.
RawDeps(n) ==
    {[input_name |-> i, output_handles |-> hs] : i \in InputNames, hs \in HandleSeqs(n - 1)}

RECURSIVE RawDepSeqs(_)
RawDepSeqs(n) ==
    IF n = 0 THEN {<<>>}
    ELSE UNION {{<<d>> \o rest : d \in RawDeps(k), rest \in RawDepSeqs(n - k)} : k \in 1..n}

RawSolids(n) ==
    {[name |-> nm, upstream |-> ds] : nm \in SolidNames, ds \in RawDepSeqs(n - 1)}

RECURSIVE RawSolidSeqs(_)
RawSolidSeqs(n) ==
    IF n = 0 THEN {<<>>}
    ELSE UNION {{<<sd>> \o rest : sd \in RawSolids(k), rest \in RawSolidSeqs(n - k)} : k \in 1..n}

RawWirings == UNION {RawSolidSeqs(n) : n \in 0..MaxSize}

\* The lists of SolidInvocationSnap a caller can hand to the constructor.
InvocationLists ==
    {[k \in 1..Len(w) |->
        SolidInvocationSnap(
          w[k].name, "adder", [cls |-> "dict"],
          [j \in 1..Len(w[k].upstream) |->
             InputDependencySnap(
               w[k].upstream[j].input_name,
               [m \in 1..Len(w[k].upstream[j].output_handles) |->
                  OutputHandleSnap(w[k].upstream[j].output_handles[m].solid_name,
                                   w[k].upstream[j].output_handles[m].output_name)])])]
       : w \in RawWirings}

\* The solids that solid k of a wiring takes an input from.
Producers(w, k) ==
    UNION {{w[k].upstream[j].output_handles[m].solid_name :
               m \in 1..Len(w[k].upstream[j].output_handles)} :
           j \in 1..Len(w[k].upstream)}

\* The solids reachable from solid name nm along at most steps dependency edges.
RECURSIVE Upstream(_, _, _)
Upstream(w, nm, steps) ==
    LET direct == UNION {Producers(w, k) : k \in {i \in 1..Len(w) : w[i].name = nm}}
    IN IF steps = 0 THEN {}
       ELSE direct \cup UNION {Upstream(w, p, steps - 1) : p \in direct}

(* What a live graph guarantees: solid names are unique, the mapping of a solid *)
(* has at most one entry per input port, every upstream output belongs to a     *)
(* solid of the graph, and there is no cycle.  An entry holds the ordered       *)
(* upstream outputs wired to its port, which may be none.                       *)
WellFormedGraph(w) ==
    /\ \A k1, k2 \in 1..Len(w) : w[k1].name = w[k2].name => k1 = k2
    /\ \A k \in 1..Len(w) :
          /\ \A j1, j2 \in 1..Len(w[k].upstream) :
                w[k].upstream[j1].input_name = w[k].upstream[j2].input_name => j1 = j2
          /\ Producers(w, k) \subseteq {w[i].name : i \in 1..Len(w)}
          /\ w[k].name \notin Upstream(w, w[k].name, Len(w))

\* The upstream outputs a port can be wired to, none included, when the solids
\* named producers may feed it.
FanIns(producers) ==
    {<<>>} \cup UNION {[1..n -> {h \in Handles : h.solid_name \in producers}] : n \in 1..MaxWired}

\* The orders in which the items of a set can be listed, each at most once.
ListingsOf(items) ==
    UNION {{l \in [1..n -> items] : \A i, j \in 1..n : l[i] = l[j] => i = j}
             : n \in 0..Cardinality(items)}

\* The number of upstream outputs in a list of lists of them.
RECURSIVE WiredCount(_)
WiredCount(hs) == IF hs = <<>> THEN 0 ELSE Len(Head(hs)) + WiredCount(Tail(hs))

\* The input -> upstream outputs mappings of a solid fed by the solids named
\* producers, in the mapping's iteration order.
MappingsOver(producers) ==
    UNION {{[j \in 1..Len(ports) |-> [input_name |-> ports[j], output_handles |-> hs[j]]]
              : hs \in {h \in [1..Len(ports) -> FanIns(producers)] : WiredCount(h) <= MaxWired}}
             : ports \in ListingsOf(InputNames)}

\* The wirings of the first k of the solids named names, where a solid is fed
\* only by solids of lower rank.
RECURSIVE SolidSeqsOver(_, _, _)
SolidSeqsOver(names, rank, k) ==
    IF k = 0 THEN {<<>>}
    ELSE {Append(rest, [name |-> names[k], upstream |-> m])
            : rest \in SolidSeqsOver(names, rank, k - 1),
              m \in MappingsOver({names[i] : i \in {i \in 1..Len(names) : rank[i] < rank[k]}})}

\* Every wiring of solids with up to MaxWired upstream outputs per solid.
GraphWirings ==
    UNION {UNION {SolidSeqsOver(names, rank, Len(names))
                    : rank \in {r \in ListingsOf(1..Len(names)) : Len(r) = Len(names)}}
             : names \in ListingsOf(SolidNames)}

Graphs ==
    {IContainSolids([k \in 1..Len(w) |-> Solid(w[k].name, "adder", w[k].upstream)])
       : w \in {v \in GraphWirings : WellFormedGraph(v)}}

----------------------------------------------------------------------------
(* Snapshot client: construct or build a snapshot, index it, query the index *)

Construct(solid_invocation_snaps) ==
    /\ graph = None
    /\ snapshot = None
    /\ snapshot' = DependencyStructureSnapshot(solid_invocation_snaps)
    /\ UNCHANGED <<graph, index, answer>>

Build ==
    /\ graph # None
    /\ snapshot' = build_dep_structure_snapshot_from_icontains_solids(graph)
    /\ UNCHANGED <<graph, index, answer>>

NewIndex ==
    /\ snapshot # None
    /\ index' = DependencyStructureSnapshotIndex(snapshot)
    /\ UNCHANGED <<graph, snapshot, answer>>

GetInvocation(solid_name) ==
    /\ index # None
    /\ answer' = [op |-> "get_invocation", args |-> [solid_name |-> solid_name],
                  ret |-> get_invocation(index, solid_name)]
    /\ UNCHANGED <<graph, snapshot, index>>

GetUpstreamOutputs(solid_name, input_name) ==
    /\ index # None
    /\ answer' = [op |-> "get_upstream_outputs",
                  args |-> [solid_name |-> solid_name, input_name |-> input_name],
                  ret |-> get_upstream_outputs(index, solid_name, input_name)]
    /\ UNCHANGED <<graph, snapshot, index>>

GetUpstreamOutput(solid_name, input_name) ==
    /\ index # None
    /\ answer' = [op |-> "get_upstream_output",
                  args |-> [solid_name |-> solid_name, input_name |-> input_name],
                  ret |-> get_upstream_output(index, solid_name, input_name)]
    /\ UNCHANGED <<graph, snapshot, index>>

NextSnap ==
    /\ \/ /\ graph = None
          /\ snapshot = None
          /\ \E invs \in InvocationLists : Construct(invs)
       \/ Build
       \/ NewIndex
       \/ \E n \in SolidNames : GetInvocation(n)
       \/ \E n \in SolidNames, i \in InputNames : GetUpstreamOutputs(n, i)
       \/ \E n \in SolidNames, i \in InputNames : GetUpstreamOutput(n, i)
    /\ UNCHANGED <<storeVars, serdesVars>>

InitSnap ==
    /\ InitStoreVars
    /\ InitSerdesIdle
    /\ graph \in Graphs \cup {None}
    /\ snapshot = None
    /\ index = None
    /\ answer = [op |-> "init", args |-> NoArgs, ret |-> Return(None)]

InitSnapIdle ==
    /\ graph = None
    /\ snapshot = None
    /\ index = None
    /\ answer = [op |-> "init", args |-> NoArgs, ret |-> Return(None)]

InitStore == InitStoreVars /\ InitSnapIdle /\ InitSerdesIdle

SpecStore == InitStore /\ [][NextStore]_vars

SpecTicks == InitStore /\ [][NextTicks]_vars

SpecConc == InitStore /\ [][NextConc]_vars

SpecSnap == InitSnap /\ [][NextSnap]_vars

----------------------------------------------------------------------------
(* solid.py and pipeline_snapshot.py: the remaining snapshot records *)

\* A string held where None is also allowed.
Str(s) == [cls |-> "str", s |-> s]

InputDefSnap(name, dagster_type_key, description) ==
    [cls |-> "InputDefSnap", name |-> name, dagster_type_key |-> dagster_type_key,
     description |-> description]

OutputDefSnap(name, dagster_type_key, description, is_required) ==
    [cls |-> "OutputDefSnap", name |-> name, dagster_type_key |-> dagster_type_key,
     description |-> description, is_required |-> is_required]

SolidDefSnap(name, input_def_snaps, output_def_snaps, description, tags, positional_inputs, config_field_snap, required_resource_keys) ==
    [cls |-> "SolidDefSnap", name |-> name, input_def_snaps |-> input_def_snaps,
     output_def_snaps |-> output_def_snaps, description |-> description,
     tags |-> tags, positional_inputs |-> positional_inputs,
     required_resource_keys |-> required_resource_keys,
     config_field_snap |-> config_field_snap]

CompositeSolidDefSnap(name, input_def_snaps, output_def_snaps, config_field_snap, description, tags, positional_inputs, required_resource_keys, dep_structure_snapshot) ==
    [cls |-> "CompositeSolidDefSnap", name |-> name,
     input_def_snaps |-> input_def_snaps, output_def_snaps |-> output_def_snaps,
     description |-> description, tags |-> tags,
     positional_inputs |-> positional_inputs,
     required_resource_keys |-> required_resource_keys,
     config_field_snap |-> config_field_snap,
     dep_structure_snapshot |-> dep_structure_snapshot]

SolidDefinitionsSnapshot(solid_def_snaps, composite_solid_def_snaps) ==
    [cls |-> "SolidDefinitionsSnapshot", solid_def_snaps |-> solid_def_snaps,
     composite_solid_def_snaps |-> composite_solid_def_snaps]

\* The two sub-snapshots built elsewhere, opaque here.
ConfigSchemaSnapshot == [cls |-> "ConfigSchemaSnapshot"]
DagsterTypeNamespaceSnapshot == [cls |-> "DagsterTypeNamespaceSnapshot"]

PipelineSnapshot(config_schema_snapshot, dagster_type_namespace_snapshot, solid_definitions_snapshot, dep_structure_snapshot) ==
    [cls |-> "PipelineSnapshot",
     config_schema_snapshot |-> config_schema_snapshot,
     dagster_type_namespace_snapshot |-> dagster_type_namespace_snapshot,
     solid_definitions_snapshot |-> solid_definitions_snapshot,
     dep_structure_snapshot |-> dep_structure_snapshot]

----------------------------------------------------------------------------
(* The codec (dagster.core.serdes): a namedtuple is packed into a dict that  *)
(* names its class under "__class__", class by class down the value, and the *)
(* dict is written as JSON; only classes registered with                     *)
(* @whitelist_for_serdes can be packed or unpacked.                          *)

\* The snapshot classes the sampled files register with @whitelist_for_serdes.
whitelist_for_serdes ==
    {"DependencyStructureSnapshot", "OutputHandleSnap", "InputDependencySnap",
     "SolidInvocationSnap", "CompositeSolidDefSnap", "SolidDefSnap",
     "InputDefSnap", "OutputDefSnap"}

\* The registry: those and the classes of the two opaque sub-snapshots.
_WHITELISTED_TUPLE_MAP ==
    whitelist_for_serdes \cup {"ConfigSchemaSnapshot", "DagsterTypeNamespaceSnapshot"}

\* The namedtuples held directly by a value of class klass_name, packed or not.
nested_tuples(klass_name, val) ==
    CASE klass_name = "InputDependencySnap" -> val.prev_output_snaps
      [] klass_name = "SolidInvocationSnap" -> val.input_dep_snaps
      [] klass_name = "DependencyStructureSnapshot" -> val.solid_invocation_snaps
      [] klass_name = "SolidDefSnap" -> val.input_def_snaps \o val.output_def_snaps
      [] klass_name = "CompositeSolidDefSnap" ->
            val.input_def_snaps \o val.output_def_snaps \o <<val.dep_structure_snapshot>>
      [] klass_name = "SolidDefinitionsSnapshot" ->
            val.solid_def_snaps \o val.composite_solid_def_snaps
      [] klass_name = "PipelineSnapshot" ->
            <<val.config_schema_snapshot, val.dagster_type_namespace_snapshot,
              val.solid_definitions_snapshot, val.dep_structure_snapshot>>
      [] OTHER -> <<>>

\* check.invariant(klass_name in tuple_map) fails somewhere in the value.
RECURSIVE _pack_value_raises(_, _)
_pack_value_raises(val, tuple_map) ==
    \/ val.cls \notin tuple_map
    \/ \E i \in 1..Len(nested_tuples(val.cls, val)) :
          _pack_value_raises(nested_tuples(val.cls, val)[i], tuple_map)

RECURSIVE _pack_value(_)
_pack_value(val) ==
    LET pack_list(items) == [i \in 1..Len(items) |-> _pack_value(items[i])]
    IN CASE val.cls = "OutputHandleSnap" ->
              [__class__ |-> val.cls, solid_name |-> val.solid_name,
               output_name |-> val.output_name]
         [] val.cls = "InputDependencySnap" ->
              [__class__ |-> val.cls, input_name |-> val.input_name,
               prev_output_snaps |-> pack_list(val.prev_output_snaps)]
         [] val.cls = "SolidInvocationSnap" ->
              [__class__ |-> val.cls, solid_name |-> val.solid_name,
               solid_def_name |-> val.solid_def_name, tags |-> val.tags,
               input_dep_snaps |-> pack_list(val.input_dep_snaps)]
         [] val.cls = "DependencyStructureSnapshot" ->
              [__class__ |-> val.cls,
               solid_invocation_snaps |-> pack_list(val.solid_invocation_snaps)]
         [] val.cls = "InputDefSnap" ->
              [__class__ |-> val.cls, name |-> val.name,
               dagster_type_key |-> val.dagster_type_key,
               description |-> val.description]
         [] val.cls = "OutputDefSnap" ->
              [__class__ |-> val.cls, name |-> val.name,
               dagster_type_key |-> val.dagster_type_key,
               description |-> val.description, is_required |-> val.is_required]
         [] val.cls = "SolidDefSnap" ->
              [__class__ |-> val.cls, name |-> val.name,
               input_def_snaps |-> pack_list(val.input_def_snaps),
               output_def_snaps |-> pack_list(val.output_def_snaps),
               description |-> val.description, tags |-> val.tags,
               positional_inputs |-> val.positional_inputs,
               required_resource_keys |-> val.required_resource_keys,
               config_field_snap |-> val.config_field_snap]
         [] val.cls = "CompositeSolidDefSnap" ->
              [__class__ |-> val.cls, name |-> val.name,
               input_def_snaps |-> pack_list(val.input_def_snaps),
               output_def_snaps |-> pack_list(val.output_def_snaps),
               description |-> val.description, tags |-> val.tags,
               positional_inputs |-> val.positional_inputs,
               required_resource_keys |-> val.required_resource_keys,
               config_field_snap |-> val.config_field_snap,
               dep_structure_snapshot |-> _pack_value(val.dep_structure_snapshot)]
         [] val.cls = "SolidDefinitionsSnapshot" ->
              [__class__ |-> val.cls,
               solid_def_snaps |-> pack_list(val.solid_def_snaps),
               composite_solid_def_snaps |-> pack_list(val.composite_solid_def_snaps)]
         [] val.cls = "PipelineSnapshot" ->
              [__class__ |-> val.cls,
               config_schema_snapshot |-> _pack_value(val.config_schema_snapshot),
               dagster_type_namespace_snapshot |->
                   _pack_value(val.dagster_type_namespace_snapshot),
               solid_definitions_snapshot |-> _pack_value(val.solid_definitions_snapshot),
               dep_structure_snapshot |-> _pack_value(val.dep_structure_snapshot)]
         [] OTHER -> [__class__ |-> val.cls]

\* tuple_map[klass_name] fails somewhere in the packed value.
RECURSIVE _unpack_value_raises(_, _)
_unpack_value_raises(val, tuple_map) ==
    \/ val.__class__ \notin tuple_map
    \/ \E i \in 1..Len(nested_tuples(val.__class__, val)) :
          _unpack_value_raises(nested_tuples(val.__class__, val)[i], tuple_map)

\* klass(**unpacked_val): the class's constructor, its arguments given by name.
RECURSIVE _unpack_value(_)
_unpack_value(val) ==
    LET unpack_list(items) == [i \in 1..Len(items) |-> _unpack_value(items[i])]
        klass_name == val.__class__
    IN CASE klass_name = "OutputHandleSnap" ->
              OutputHandleSnap(val.solid_name, val.output_name)
         [] klass_name = "InputDependencySnap" ->
              InputDependencySnap(val.input_name, unpack_list(val.prev_output_snaps))
         [] klass_name = "SolidInvocationSnap" ->
              SolidInvocationSnap(val.solid_name, val.solid_def_name, val.tags,
                                  unpack_list(val.input_dep_snaps))
         [] klass_name = "DependencyStructureSnapshot" ->
              DependencyStructureSnapshot(unpack_list(val.solid_invocation_snaps))
         [] klass_name = "InputDefSnap" ->
              InputDefSnap(val.name, val.dagster_type_key, val.description)
         [] klass_name = "OutputDefSnap" ->
              OutputDefSnap(val.name, val.dagster_type_key, val.description,
                            val.is_required)
         [] klass_name = "SolidDefSnap" ->
              SolidDefSnap(val.name, unpack_list(val.input_def_snaps),
                           unpack_list(val.output_def_snaps), val.description,
                           val.tags, val.positional_inputs, val.config_field_snap,
                           val.required_resource_keys)
         [] klass_name = "CompositeSolidDefSnap" ->
              CompositeSolidDefSnap(val.name, unpack_list(val.input_def_snaps),
                                    unpack_list(val.output_def_snaps),
                                    val.config_field_snap, val.description, val.tags,
                                    val.positional_inputs, val.required_resource_keys,
                                    _unpack_value(val.dep_structure_snapshot))
         [] klass_name = "SolidDefinitionsSnapshot" ->
              SolidDefinitionsSnapshot(unpack_list(val.solid_def_snaps),
                                       unpack_list(val.composite_solid_def_snaps))
         [] klass_name = "PipelineSnapshot" ->
              PipelineSnapshot(_unpack_value(val.config_schema_snapshot),
                               _unpack_value(val.dagster_type_namespace_snapshot),
                               _unpack_value(val.solid_definitions_snapshot),
                               _unpack_value(val.dep_structure_snapshot))
         [] OTHER -> [cls |-> klass_name]

\* JSON text of a packed value.
json_dumps(obj) == [cls |-> "str", json |-> obj]
json_loads(text) == text.json

_serialize_dagster_namedtuple(nt, tuple_map) ==
    IF _pack_value_raises(nt, tuple_map)
    THEN Raise("CheckError", "Can only serialize whitelisted namedtuples")
    ELSE Return(json_dumps(_pack_value(nt)))

_deserialize_json_to_dagster_namedtuple(json_str, tuple_map) ==
    IF _unpack_value_raises(json_loads(json_str), tuple_map)
    THEN Raise("KeyError", "__class__")
    ELSE Return(_unpack_value(json_loads(json_str)))

----------------------------------------------------------------------------
(* Codec client: construct a snapshot record, serialize it, deserialize the *)
(* text                                                                      *)

OutputHandleSnaps == {OutputHandleSnap(n, o) : n \in SolidNames, o \in OutputNames}

DependencyStructureSnapshots ==
    {DependencyStructureSnapshot(invs) : invs \in InvocationLists}

SolidInvocationSnaps ==
    UNION {{invs[k] : k \in 1..Len(invs)} : invs \in InvocationLists}

InputDependencySnaps ==
    UNION {{inv.input_dep_snaps[j] : j \in 1..Len(inv.input_dep_snaps)} :
             inv \in SolidInvocationSnaps}

Descriptions == {None, Str("doc")}

InputDefSnaps == {InputDefSnap(n, "Int", d) : n \in InputNames, d \in Descriptions}

OutputDefSnaps ==
    {OutputDefSnap(n, "Int", d, b) : n \in OutputNames, d \in Descriptions, b \in BOOLEAN}

\* The lists of at most one item of a set.
ShortLists(items) == {<<>>} \cup {<<item>> : item \in items}

\* The names of a list of definitions, in order.
NamesOf(def_snaps) == [i \in 1..Len(def_snaps) |-> def_snaps[i].name]

SolidDefSnaps ==
    {SolidDefSnap("adder", ins, outs, d, [cls |-> "dict"], NamesOf(ins), None, <<>>) :
        ins \in ShortLists(InputDefSnaps),
        outs \in ShortLists({o \in OutputDefSnaps : o.description = None}),
        d \in Descriptions}

\* The snapshots the builder produces.
BuiltSnapshots == {build_dep_structure_snapshot_from_icontains_solids(g) : g \in Graphs}

CompositeSolidDefSnaps ==
    {CompositeSolidDefSnap("nested", ins, <<>>, None, None, [cls |-> "dict"],
                           NamesOf(ins), <<>>, dss) :
        ins \in ShortLists(InputDefSnaps), dss \in BuiltSnapshots}

SolidDefinitionsSnapshots ==
    {SolidDefinitionsSnapshot(solid_def_snaps, composite_solid_def_snaps) :
        solid_def_snaps \in ShortLists(SolidDefSnaps),
        composite_solid_def_snaps \in
            ShortLists({c \in CompositeSolidDefSnaps : c.input_def_snaps = <<>>})}

\* Pipelines without atomic definitions: with no composite definition, or with
\* one whose inner graph is wired like the pipeline's own.
PipelineSnapshots ==
    UNION {{PipelineSnapshot(ConfigSchemaSnapshot, DagsterTypeNamespaceSnapshot,
                             solid_definitions_snapshot, dss) :
              solid_definitions_snapshot \in
                  {SolidDefinitionsSnapshot(<<>>, <<>>),
                   SolidDefinitionsSnapshot(
                     <<>>, <<CompositeSolidDefSnap("nested", <<>>, <<>>, None, None,
                                                   [cls |-> "dict"], <<>>, <<>>, dss)>>)}}
             : dss \in BuiltSnapshots}

NewRecord(nt) ==
    /\ record = None
    /\ record' = nt
    /\ UNCHANGED <<wire, decoded>>

Serialize ==
    /\ record # None
    /\ wire' = _serialize_dagster_namedtuple(record, _WHITELISTED_TUPLE_MAP)
    /\ UNCHANGED <<record, decoded>>

Deserialize ==
    /\ wire.kind = "return"
    /\ decoded' = _deserialize_json_to_dagster_namedtuple(wire.value, _WHITELISTED_TUPLE_MAP)
    /\ UNCHANGED <<record, wire>>

NextSerdes ==
    /\ \/ /\ record = None
          /\ \/ \E nt \in OutputHandleSnaps : NewRecord(nt)
             \/ \E nt \in InputDependencySnaps : NewRecord(nt)
             \/ \E nt \in SolidInvocationSnaps : NewRecord(nt)
             \/ \E nt \in DependencyStructureSnapshots : NewRecord(nt)
             \/ \E nt \in InputDefSnaps : NewRecord(nt)
             \/ \E nt \in OutputDefSnaps : NewRecord(nt)
             \/ \E nt \in SolidDefSnaps : NewRecord(nt)
             \/ \E nt \in CompositeSolidDefSnaps : NewRecord(nt)
             \/ \E nt \in SolidDefinitionsSnapshots : NewRecord(nt)
             \/ \E nt \in PipelineSnapshots : NewRecord(nt)
       \/ Serialize
       \/ Deserialize
    /\ UNCHANGED <<storeVars, snapVars>>

SpecSerdes == InitStore /\ [][NextSerdes]_vars

----------------------------------------------------------------------------
(* Properties of the schedule storage *)

\* The positions of the rows of a table stored under (repository_name, schedule_name).
RowsFor(table, repository_name, schedule_name) ==
    {i \in 1..Len(table) :
        /\ table[i].repository_name = repository_name
        /\ table[i].schedule_name = schedule_name}

AlreadyPresent == Raise("DagsterInvariantViolationError", "is already present in storage")
NotPresent == Raise("DagsterInvariantViolationError", "is not present in storage")

\* C1: add_schedule on a (repository name, schedule name) that already has a row
\* fails with the 'already present' DagsterInvariantViolationError, and the
\* schedule table (the stored row's status and body) is the same after the failed
\* call as before it.
C1_SecondAddConflicts ==
    [][\A repository \in Repositories, s \in AllSchedules :
          (/\ AddSchedule(repository, s)
           /\ RowsFor(schedules, repository.name, s.name) # {})
          => (last'.ret = AlreadyPresent /\ schedules' = schedules)]_vars

\* C1 witness: a second add of a stored schedule, with another status, has just
\* failed and the stored row still carries the first status.
C1_Witness ==
    /\ last.op = "add_schedule"
    /\ last.ret = AlreadyPresent
    /\ \E i \in RowsFor(schedules, last.args.repository.name, last.args.schedule.name) :
          /\ schedules[i].status # last.args.schedule.status
          /\ schedules[i].schedule_body # serialize_dagster_namedtuple(last.args.schedule)

\* The decoded bodies of the rows of a table that belong to repository (of every
\* row when repository is None), in table order.
RECURSIVE DecodedBodies(_, _)
DecodedBodies(table, repository) ==
    IF table = <<>> THEN <<>>
    ELSE LET rest == DecodedBodies(Tail(table), repository)
             row == Head(table)
         IN IF repository = None \/ row.repository_name = repository.name
            THEN <<row.schedule_body[3]>> \o rest
            ELSE rest

\* The sequence s holds the items of the sequence t, each as often, in some order.
SameItems(s, t) ==
    /\ Len(s) = Len(t)
    /\ \E order \in RowOrders(Len(t)) : s = [i \in 1..Len(t) |-> t[order[i]]]

\* C5: all_schedules(repository) returns the decoded bodies of exactly the rows of
\* that repository, and all_schedules() without a repository returns the decoded
\* bodies of every row, in whatever order the database yields them.
C5_AllSchedulesReturns ==
    last.op = "all_schedules"
    => /\ last.ret.kind = "return"
       /\ SameItems(last.ret.value.items, DecodedBodies(schedules, last.args.repository))

\* C6: all_schedules() without a repository, called right after wipe(), returns
\* an empty collection.
C6_EmptyAfterWipe ==
    [][(/\ last.op = "wipe"
        /\ last'.op = "all_schedules"
        /\ last'.args = [repository |-> None])
       => last'.ret = Return(List(<<>>))]_vars

----------------------------------------------------------------------------
(* Properties of the tick storage *)

TickIds(table) == {table[i].id : i \in 1..Len(table)}

\* C4: create_schedule_tick returns a tick whose tick_id no stored tick has, and
\* appends one row with that id; after update_schedule_tick on a stored id,
\* get_schedule_ticks_by_schedule for the tick's repository and schedule returns
\* the tick exactly once, with the new status and body, and the table has no more
\* rows than before.
C4_TickLifecycle ==
    [][/\ last'.op = "create_schedule_tick"
          => LET repository == last'.args.repository
                 d == last'.args.schedule_tick_data
             IN CreateScheduleTick(repository, d)
                => /\ last'.ret.kind = "return"
                   /\ last'.ret.value.tick_id \notin TickIds(ticks)
                   /\ last'.ret.value.schedule_tick_data = d
                   /\ Len(ticks') = Len(ticks) + 1
                   /\ ticks'[Len(ticks')].id = last'.ret.value.tick_id
                   /\ SubSeq(ticks', 1, Len(ticks)) = ticks
       /\ last'.op = "update_schedule_tick"
          => LET tick == last'.args.tick
             IN (/\ UpdateScheduleTick(last'.args.repository, tick)
                 /\ tick.tick_id \in TickIds(ticks))
                => LET i == CHOOSE k \in 1..Len(ticks) : ticks[k].id = tick.tick_id
                       repository == RepositoryDefinition(ticks[i].repository_name)
                       name == ticks[i].schedule_name
                   IN /\ \A order \in RowOrders(Len(tick_rows(ticks', repository, name))) :
                            LET got == get_schedule_ticks_by_schedule(
                                           ticks', repository, name, order).value.items
                            IN /\ Cardinality({j \in 1..Len(got) :
                                                  got[j].tick_id = tick.tick_id}) = 1
                               /\ \A j \in 1..Len(got) :
                                     got[j].tick_id = tick.tick_id => got[j] = tick
                      /\ Len(ticks') = Len(ticks)
                      /\ ticks'[i].status = tick.schedule_tick_data.status]_vars

\* C4 witness: the second of two ticks of one schedule has just been updated to
\* SUCCESS while the first is still STARTED.
C4_Witness ==
    /\ last.op = "update_schedule_tick"
    /\ Len(ticks) = 2
    /\ ticks[1].repository_name = ticks[2].repository_name
    /\ ticks[1].schedule_name = ticks[2].schedule_name
    /\ ticks[1].id # ticks[2].id
    /\ last.args.tick.tick_id = ticks[2].id
    /\ ticks[2].status = "SUCCESS"
    /\ ticks[1].status = "STARTED"

\* C7: wipe() leaves the tick table unchanged: get_schedule_ticks_by_schedule
\* returns the same ticks for every repository and schedule name right after
\* wipe() as right before it.
C7_WipeKeepsTicks ==
    [][Wipe
       => /\ ticks' = ticks
          /\ \A repository \in Repositories, n \in ScheduleNames :
                /\ Len(tick_rows(ticks', repository, n)) = Len(tick_rows(ticks, repository, n))
                /\ \A order \in RowOrders(Len(tick_rows(ticks, repository, n))) :
                      get_schedule_ticks_by_schedule(ticks', repository, n, order)
                        = get_schedule_ticks_by_schedule(ticks, repository, n, order)]_vars

\* C7 witness: wipe() has just emptied the schedule table while ticks are stored.
C7_Witness ==
    /\ last.op = "wipe"
    /\ schedules = <<>>
    /\ Len(ticks) > 0

----------------------------------------------------------------------------
(* Properties of concurrent writers *)

\* C3: update_schedule and delete_schedule on a key without a row fail with the
\* 'not present' DagsterInvariantViolationError at their pre-check, before any
\* write, and leave the schedule table and the tick table unchanged;
\* get_schedule_by_name on such a key returns None.
C3_AbsentKey ==
    /\ [](\A repository \in Repositories, n \in ScheduleNames :
            RowsFor(schedules, repository.name, n) = {}
            => get_schedule_by_name(schedules, repository, n) = Return(None))
    /\ [][\A w \in Writers, repository \in Repositories, s \in ConcSchedules :
             (/\ RowsFor(schedules, repository.name, s.name) = {}
              /\ (W_UpdateCheck(w, repository, s) \/ W_DeleteCheck(w, repository, s)))
             => /\ pc'[w].at = "done"
                /\ pc'[w].ret = NotPresent
                /\ schedules' = schedules
                /\ ticks' = ticks]_vars

\* C3 witness: an update of a schedule that has no row has just failed while
\* another schedule and a tick are stored.
C3_Witness ==
    \E w \in Writers :
        /\ pc[w].at = "done"
        /\ pc[w].op = "update_schedule"
        /\ pc[w].ret = NotPresent
        /\ RowsFor(schedules, pc[w].repository.name, pc[w].schedule.name) = {}
        /\ Len(schedules) > 0
        /\ Len(ticks) > 0

\* C2: under every interleaving of the writers' add, update, delete and wipe
\* steps the schedule table holds at most one row per (repository_name,
\* schedule_name), written by exactly one successful add since the key was last
\* removed; an add of a key without a row succeeds and an add of a key with a row
\* gets the 'already present' error, so of two writers adding the same key one
\* succeeds and the other gets the conflict error.
C2_OneRowPerKey ==
    /\ [](\A k \in Keys :
            /\ Cardinality(RowsFor(schedules, k[1], k[2])) <= 1
            /\ Cardinality(added[k]) = Cardinality(RowsFor(schedules, k[1], k[2])))
    /\ [][\A w \in Writers, repository \in Repositories, s \in ConcSchedules :
             W_AddSchedule(w, repository, s)
             => IF RowsFor(schedules, repository.name, s.name) = {}
                THEN /\ pc'[w].ret = Return(s)
                     /\ Cardinality(RowsFor(schedules', repository.name, s.name)) = 1
                ELSE /\ pc'[w].ret = AlreadyPresent
                     /\ schedules' = schedules]_vars

\* C2 witness: both writers have added the same key with different statuses; one
\* succeeded, the other got the conflict error, and one row is stored.
C2_Witness ==
    \E w1 \in Writers, w2 \in Writers :
        /\ w1 # w2
        /\ pc[w1].at = "done" /\ pc[w1].op = "add_schedule"
        /\ pc[w2].at = "done" /\ pc[w2].op = "add_schedule"
        /\ pc[w1].repository = pc[w2].repository
        /\ pc[w1].schedule.name = pc[w2].schedule.name
        /\ pc[w1].schedule.status # pc[w2].schedule.status
        /\ pc[w1].ret.kind = "return"
        /\ pc[w2].ret = AlreadyPresent
        /\ added[<<pc[w1].repository.name, pc[w1].schedule.name>>] = {w1}
        /\ Cardinality(RowsFor(schedules, pc[w1].repository.name, pc[w1].schedule.name)) = 1

----------------------------------------------------------------------------
(* Properties of the dependency structure snapshot index *)

Max(S) == CHOOSE m \in S : \A x \in S : x <= m
Min(S) == CHOOSE m \in S : \A x \in S : m <= x

Invocations == snapshot.solid_invocation_snaps

\* The positions of the invocations of the snapshot named solid_name.
InvocationsNamed(solid_name) ==
    {k \in 1..Len(Invocations) : Invocations[k].solid_name = solid_name}

\* The positions of the input dependencies of an invocation named input_name.
DepsNamed(invocation, input_name) ==
    {j \in 1..Len(invocation.input_dep_snaps) :
        invocation.input_dep_snaps[j].input_name = input_name}

\* The number of upstream outputs the snapshot records for an input of a node,
\* over all its invocations and input dependencies of those names.
RECURSIVE SumLens(_, _)
SumLens(deps, js) ==
    IF js = {} THEN 0
    ELSE LET j == Min(js)
         IN Len(deps[j].prev_output_snaps) + SumLens(deps, js \ {j})

RECURSIVE RecordedCount(_, _)
RecordedCount(ks, input_name) ==
    IF ks = {} THEN 0
    ELSE LET k == Min(ks)
         IN SumLens(Invocations[k].input_dep_snaps, DepsNamed(Invocations[k], input_name))
            + RecordedCount(ks \ {k}, input_name)

\* The node and the input each occur at most once in the snapshot.
Unambiguous(solid_name, input_name) ==
    /\ Cardinality(InvocationsNamed(solid_name)) <= 1
    /\ \A k \in InvocationsNamed(solid_name) :
          Cardinality(DepsNamed(Invocations[k], input_name)) <= 1

\* C8: get_upstream_output returns the single recorded output handle if and only
\* if exactly one upstream output is recorded for that input of that node; it
\* fails when the node or the input is absent, when the recorded list is empty
\* and when it holds two or more outputs.  Where a name occurs more than once in
\* a snapshot, the recorded list is the one the index resolves: the first input
\* dependency of that name in the last invocation of that name.
C8_SingleProducer ==
    answer.op = "get_upstream_output"
    => LET n == answer.args.solid_name
           i == answer.args.input_name
           ks == InvocationsNamed(n)
       IN /\ IF ks = {} THEN answer.ret.kind = "raise"
             ELSE LET inv == Invocations[Max(ks)]
                      js == DepsNamed(inv, i)
                  IN IF js = {} THEN answer.ret.kind = "raise"
                     ELSE LET outs == inv.input_dep_snaps[Min(js)].prev_output_snaps
                          IN IF Len(outs) = 1
                             THEN answer.ret = Return(outs[1])
                             ELSE answer.ret = Raise("CheckError", "Invariant failed.")
          /\ Unambiguous(n, i)
             => (answer.ret.kind = "return" <=> RecordedCount(ks, i) = 1)

\* C8 witness: get_upstream_output has just failed on an input with two recorded
\* upstream outputs.
C8_Witness ==
    /\ answer.op = "get_upstream_output"
    /\ answer.ret = Raise("CheckError", "Invariant failed.")
    /\ Unambiguous(answer.args.solid_name, answer.args.input_name)
    /\ RecordedCount(InvocationsNamed(answer.args.solid_name), answer.args.input_name) >= 2

\* C9: get_upstream_outputs returns all recorded output handles of the input, in
\* recorded order; it fails with a check error when the node has no input
\* dependency of that name; get_invocation and get_upstream_outputs fail with
\* KeyError when the node is not in the snapshot.
C9_FanIn ==
    /\ answer.op = "get_upstream_outputs"
       => LET n == answer.args.solid_name
              i == answer.args.input_name
              ks == InvocationsNamed(n)
          IN IF ks = {} THEN answer.ret = Raise("KeyError", n)
             ELSE LET inv == Invocations[Max(ks)]
                      js == DepsNamed(inv, i)
                  IN IF js = {}
                     THEN answer.ret.kind = "raise" /\ answer.ret.error = "CheckError"
                     ELSE answer.ret =
                              Return(List(inv.input_dep_snaps[Min(js)].prev_output_snaps))
    /\ (answer.op = "get_invocation" /\ InvocationsNamed(answer.args.solid_name) = {})
       => answer.ret = Raise("KeyError", answer.args.solid_name)

\* C9 witness: get_upstream_outputs has just returned two different output
\* handles of a fan-in input.
C9_Witness ==
    /\ answer.op = "get_upstream_outputs"
    /\ answer.ret.kind = "return"
    /\ Len(answer.ret.value.items) >= 2
    /\ answer.ret.value.items[1] # answer.ret.value.items[2]

SolidNamesOf(invs) == {invs[k].solid_name : k \in 1..Len(invs)}

\* C10 as stated: in every snapshot, built or constructed from a list, no two
\* invocations share a solid_name, the index holds one entry per invocation and
\* get_invocation returns the only invocation of the name.
C10_UniqueNamesAlways ==
    snapshot # None
    => /\ \A k1, k2 \in 1..Len(Invocations) :
             Invocations[k1].solid_name = Invocations[k2].solid_name => k1 = k2
       /\ index # None => Len(index.invocations_dict) = Len(Invocations)
       /\ (answer.op = "get_invocation" /\ answer.ret.kind = "return")
          => InvocationsNamed(answer.args.solid_name) = {Min(InvocationsNamed(answer.args.solid_name))}

\* C10 amended: in a snapshot the builder produced from a graph (whose solid names
\* are unique) no two invocations share a solid_name and the index holds one
\* entry per invocation; over any snapshot, also one constructed from a list with
\* repeated names, the index holds one entry per distinct solid_name and
\* get_invocation returns the last invocation of that name.
C10_UniqueNamesWhenBuilt ==
    /\ (graph # None /\ snapshot # None)
       => /\ \A k1, k2 \in 1..Len(Invocations) :
                Invocations[k1].solid_name = Invocations[k2].solid_name => k1 = k2
          /\ index # None => Len(index.invocations_dict) = Len(Invocations)
    /\ index # None
       => /\ Len(index.invocations_dict) = Cardinality(SolidNamesOf(Invocations))
          /\ \A n \in SolidNamesOf(Invocations) :
                get_invocation(index, n) = Return(Invocations[Max(InvocationsNamed(n))])
    /\ (answer.op = "get_invocation" /\ answer.ret.kind = "return")
       => answer.ret.value = Invocations[Max(InvocationsNamed(answer.args.solid_name))]

\* C10 witness: the index over a built snapshot of two invocations has answered
\* get_invocation.
C10_Witness ==
    /\ graph # None
    /\ snapshot # None
    /\ Len(Invocations) = 2
    /\ index # None
    /\ Len(index.invocations_dict) = 2
    /\ answer.op = "get_invocation"
    /\ answer.ret.kind = "return"
    /\ answer.ret.value = Invocations[2]

----------------------------------------------------------------------------
(* Properties of the builder *)

\* The entries of a solid's input -> upstream outputs mapping for port input_name
\* that name at least one upstream output.
WiredEntries(solid, input_name) ==
    {j \in 1..Len(solid.upstream) :
        /\ solid.upstream[j].input_name = input_name
        /\ Len(solid.upstream[j].output_handles) >= 1}

\* The (solid name, output name) pairs of a list of handles, in order.
HandlePairs(handles) ==
    [m \in 1..Len(handles) |-> <<handles[m].solid_name, handles[m].output_name>>]

\* C11: the snapshot built from a graph has one invocation per solid in the
\* graph's iteration order; per solid it has exactly one input dependency for each
\* port with at least one upstream output, holding those outputs in the order the
\* graph supplies them, and none for a port without; no input dependency has an
\* empty list; and a second build from the unchanged graph yields a snapshot
\* equal to the one the first build produced.
C11_BuilderFollowsWiring ==
    /\ [](graph # None /\ snapshot # None
           => /\ Len(Invocations) = Len(graph.solids)
              /\ \A k \in 1..Len(graph.solids) :
                    LET solid == graph.solids[k]
                        invocation == Invocations[k]
                    IN /\ invocation.solid_name = solid.name
                       /\ \A i \in InputNames :
                             /\ Cardinality(DepsNamed(invocation, i))
                                   = (IF WiredEntries(solid, i) # {} THEN 1 ELSE 0)
                             /\ \A j \in DepsNamed(invocation, i), w \in WiredEntries(solid, i) :
                                   HandlePairs(invocation.input_dep_snaps[j].prev_output_snaps)
                                     = HandlePairs(solid.upstream[w].output_handles)
                       /\ \A j \in 1..Len(invocation.input_dep_snaps) :
                             /\ invocation.input_dep_snaps[j].input_name \in InputNames
                             /\ Len(invocation.input_dep_snaps[j].prev_output_snaps) >= 1)
    /\ [][(graph # None /\ snapshot # None /\ graph' = graph) => snapshot' = snapshot]_vars

----------------------------------------------------------------------------
(* Properties of the codec *)

\* C12: for every constructed snapshot record, Pipeline Snapshot and Node
\* Definitions Snapshot included, serializing succeeds, and deserializing the
\* text succeeds and yields a value equal to the record.
C12_RoundTrip ==
    /\ wire.kind # "none" => wire.kind = "return"
    /\ decoded.kind # "none" => decoded = Return(record)

----------------------------------------------------------------------------
(* Properties of the check-then-write race *)

\* C13: the write of update_schedule is a separate step from its existence check.
\* When the row has been removed between the two, the write matches no row: the
\* call still returns without the 'not present' error, the table is unchanged and
\* the schedule stays absent.
C13_UpdateAfterDelete ==
    [][\A w \in Writers :
          (/\ W_UpdateWrite(w)
           /\ RowsFor(schedules, pc[w].repository.name, pc[w].schedule.name) = {})
          => /\ pc'[w].ret = Return(None)
             /\ pc'[w].rowcount = 0
             /\ schedules' = schedules
             /\ RowsFor(schedules', pc[w].repository.name, pc[w].schedule.name) = {}]_vars

\* C13 witness: writer w1 passed the check of update_schedule, writer w2's
\* delete_schedule of the same key returned, and w1's update then returned
\* normally having matched no row; the schedule is absent.
C13_Witness ==
    \E w1 \in Writers, w2 \in Writers :
        /\ w1 # w2
        /\ pc[w1].at = "done" /\ pc[w1].op = "update_schedule"
        /\ pc[w1].ret = Return(None)
        /\ pc[w1].rowcount = 0
        /\ pc[w2].at = "done" /\ pc[w2].op = "delete_schedule"
        /\ pc[w2].ret = Return(None)
        /\ pc[w2].repository = pc[w1].repository
        /\ pc[w2].schedule.name = pc[w1].schedule.name
        /\ RowsFor(schedules, pc[w1].repository.name, pc[w1].schedule.name) = {}

====
